---- MODULE Spec2Model ----
(***************************************************************************)
(* A model of the STL library's ASCII reader (readascii.go) and of the     *)
(* mesh validator (solid.go).                                              *)
(*                                                                         *)
(* The reader is modelled as the state machine of parser.Parse: the        *)
(* parser's fields are the record p, the Writer it feeds is the record sw, *)
(* and the byte stream is the variable stream.  A line of the stream is    *)
(* kept as what the code observes of its bytes: the white space before the *)
(* first word (indent), the words bufio.ScanWords splits it into, and the  *)
(* white space that follows the first word (sep).                          *)
(***************************************************************************)
EXTENDS Integers, Sequences, FiniteSets, TLC

VARIABLES
    gen,      \* how the input was built (never changes; read by the properties)
    stream,   \* the io.Reader: [lines, err], err = the read fails after the lines
    p,        \* the parser struct
    sw,       \* the Writer (a Solid): Name, Triangles, and the calls it received
    pc,       \* position in newParser / Parse
    success,  \* Parse's return value
    hist,     \* history: what happened during the parse (read by the properties)
    solid,    \* the Solid that Validate is called on
    findings, \* what the last Validate call returned
    previous, \* what the Validate call before it returned
    calls,    \* the number of Validate calls made
    slice,    \* a Solid's Triangles as Go holds it: backing array and length
    last,     \* history: the last SetTriangleCount call and the appends since
    ray,      \* the Ray IntersectsTriangle is called on
    triangle, \* its argument
    hit       \* what the call returned

pvars == <<gen, stream, p, sw, pc, success, hist>>
vvars == <<solid, findings, previous, calls>>
svars == <<slice, last>>
rvars == <<ray, triangle, hit>>
vars == <<gen, stream, p, sw, pc, success, hist, solid, findings, previous, calls,
          slice, last, ray, triangle, hit>>

----------------------------------------------------------------------------
(* Bounds of the model *)

MaxFacets == 2
MaxBlank == 1
MaxTriangles == 4
MaxCap == 3
Precision == 6
FracBits == 10

----------------------------------------------------------------------------
(* Token identifiers, readascii.go:50-61 (idSolid = 1 << iota with iota = 1) *)

idNone == 0
idSolid == 2
idFacet == 4
idNormal == 8
idOuter == 16
idLoop == 32
idVertex == 64
idEndloop == 128
idEndfacet == 256
idEndsolid == 512
idFacetOrEndsolid == 516

\* identRegexps: the words each anchored regular expression matches
identRegexps(ident) ==
    CASE ident = idSolid -> {"solid"}
      [] ident = idFacet -> {"facet"}
      [] ident = idNormal -> {"normal"}
      [] ident = idOuter -> {"outer"}
      [] ident = idLoop -> {"loop"}
      [] ident = idVertex -> {"vertex"}
      [] ident = idEndloop -> {"endloop"}
      [] ident = idEndfacet -> {"endfacet"}
      [] ident = idEndsolid -> {"endsolid"}
      [] ident = idFacetOrEndsolid -> {"facet", "endsolid"}

idents(ident) ==
    CASE ident = idSolid -> "solid"
      [] ident = idFacet -> "facet"
      [] ident = idNormal -> "normal"
      [] ident = idOuter -> "outer"
      [] ident = idLoop -> "loop"
      [] ident = idVertex -> "vertex"
      [] ident = idEndloop -> "endloop"
      [] ident = idEndfacet -> "endfacet"
      [] ident = idEndsolid -> "endsolid"

MatchString(ident, word) == word \in identRegexps(ident)

----------------------------------------------------------------------------
(* strconv.ParseFloat(word, 32).  A value is kept exactly, as an integer   *)
(* number of units of 2^-27: the result is the float32 nearest to the      *)
(* literal, so "0.1" is 13421773 units and not a tenth.  A literal out of  *)
(* float32's range is an error (ErrRange), as is anything not a number.    *)

Unit == 2^27

Digits == 0..9

IsDigitWord(word) == \E n \in Digits : ToString(n) = word

ParseFloat(word) ==
    IF IsDigitWord(word)
    THEN [err |-> FALSE, f |-> Unit * (CHOOSE n \in Digits : ToString(n) = word)]
    ELSE IF word = "0.1" THEN [err |-> FALSE, f |-> 13421773]
    ELSE IF word = "-1" THEN [err |-> FALSE, f |-> -Unit]
    ELSE [err |-> TRUE, f |-> 0]

----------------------------------------------------------------------------
(* The parser *)

NoLine == [indent |-> "", words |-> <<>>, sep |-> ""]

ReadErrorText == "read error"

Vec3Zero == <<0, 0, 0>>

ZeroTriangle == [Normal |-> Vec3Zero, Vertices |-> <<Vec3Zero, Vec3Zero, Vec3Zero>>]

\* var p parser: Go's zero value, with p.errors = list.New() and p.eof = false
ZeroParser ==
    [line |-> 0, errors |-> <<>>, currentWord |-> "", currentLine |-> NoLine,
     eof |-> FALSE, scanned |-> 0, wpos |-> 0,
     HeaderError |-> FALSE, TrianglesSkipped |-> FALSE, ErrorText |-> "",
     log |-> <<>>]

\* With(x, F) is F(x), with x evaluated once, before F is applied
With(x, F(_)) == CHOOSE y \in {F(v) : v \in {x}} : TRUE

\* p.errors.PushBack(fmt.Sprintf("%d: %s", p.line, msg)); log is the history
\* of the calls
addError(q0, msg) ==
    With(q0, LAMBDA q :
        [q EXCEPT !.errors = Append(@, ToString(q.line) \o ": " \o msg),
                  !.log = Append(@, [line |-> q.line, msg |-> msg])])

\* wordScanner.Err(): the word scanner reads the bytes of one line already in
\* memory, whose reader cannot fail
wordScannerErr(q) == ""

\* the end of nextWord (after a word scanner failure) and of nextLine
AtEnd(q) == [q EXCEPT !.currentLine = NoLine, !.currentWord = "", !.eof = TRUE]

RECURSIVE nextWord(_), nextLine(_)

\* nextWord without the test of p.eof
nextWordUnguarded(q0) ==
    With(q0, LAMBDA q :
        IF q.wpos < Len(q.currentLine.words)
        THEN [p |-> [q EXCEPT !.wpos = @ + 1,
                              !.currentWord = q.currentLine.words[q.wpos + 1]],
              ok |-> TRUE]
        ELSE IF wordScannerErr(q) = "" THEN nextLine(q)
        ELSE [p |-> AtEnd(addError(q, wordScannerErr(q))), ok |-> FALSE])

nextWord(q0) ==
    With(q0, LAMBDA q :
        IF q.eof THEN [p |-> q, ok |-> FALSE]
        ELSE IF q.wpos < Len(q.currentLine.words)
        THEN [p |-> [q EXCEPT !.wpos = @ + 1,
                              !.currentWord = q.currentLine.words[q.wpos + 1]],
              ok |-> TRUE]
        ELSE IF wordScannerErr(q) = "" THEN nextLine(q)
        ELSE [p |-> AtEnd(addError(q, wordScannerErr(q))), ok |-> FALSE])

\* nextLine that counts only the lines that have a word
nextLineWords(q0) ==
    With(q0, LAMBDA q :
        IF q.scanned < Len(stream.lines)
        THEN nextWord([q EXCEPT !.scanned = @ + 1,
                                !.currentLine = stream.lines[q.scanned + 1],
                                !.line = IF stream.lines[q.scanned + 1].words = <<>>
                                         THEN @ ELSE @ + 1,
                                !.wpos = 0])
        ELSE IF stream.err
        THEN [p |-> AtEnd(addError(q, ReadErrorText)), ok |-> FALSE]
        ELSE [p |-> AtEnd(q), ok |-> FALSE])

nextLine(q0) ==
    With(q0, LAMBDA q :
        IF q.scanned < Len(stream.lines)
        THEN nextWord([q EXCEPT !.scanned = @ + 1,
                                !.currentLine = stream.lines[q.scanned + 1],
                                !.line = @ + 1,
                                !.wpos = 0])
        ELSE IF stream.err
        THEN [p |-> AtEnd(addError(q, ReadErrorText)), ok |-> FALSE]
        ELSE [p |-> AtEnd(q), ok |-> FALSE])

isCurrentTokenIdent(q, ident) == MatchString(ident, q.currentWord)

\* skipToToken that does not call nextWord: it looks at the same word again
skipToTokenStay(q, ident) ==
    IF MatchString(ident, q.currentWord)
    THEN IF ident = idFacetOrEndsolid
         THEN IF MatchString(idFacet, q.currentWord)
              THEN [p |-> q, ret |-> TRUE, id |-> idFacet]
              ELSE [p |-> q, ret |-> TRUE, id |-> idEndsolid]
         ELSE [p |-> q, ret |-> TRUE, id |-> ident]
    ELSE [p |-> q, ret |-> FALSE, id |-> idNone]

\* skipToToken that returns idFacet for either word of the set
skipToTokenFacet(q, ident) ==
    IF MatchString(ident, q.currentWord)
    THEN IF ident = idFacetOrEndsolid
         THEN [p |-> q, ret |-> TRUE, id |-> idFacet]
         ELSE [p |-> q, ret |-> TRUE, id |-> ident]
    ELSE With(nextWord(q), LAMBDA r :
            IF ~r.ok THEN [p |-> r.p, ret |-> TRUE, id |-> idNone]
            ELSE [p |-> r.p, ret |-> FALSE, id |-> idNone])

\* One turn of the loop of skipToToken, readascii.go:191-204.  ret: the
\* function returns, with id; otherwise the loop goes on with the next word
skipToToken(q, ident) ==
    IF MatchString(ident, q.currentWord)
    THEN IF ident = idFacetOrEndsolid
         THEN IF MatchString(idFacet, q.currentWord)
              THEN [p |-> q, ret |-> TRUE, id |-> idFacet]
              ELSE [p |-> q, ret |-> TRUE, id |-> idEndsolid]
         ELSE [p |-> q, ret |-> TRUE, id |-> ident]
    ELSE With(nextWord(q), LAMBDA r :
            IF ~r.ok THEN [p |-> r.p, ret |-> TRUE, id |-> idNone]
            ELSE [p |-> r.p, ret |-> FALSE, id |-> idNone])

consumeToken(q0, ident) ==
    With(q0, LAMBDA q :
        IF ~MatchString(ident, q.currentWord)
        THEN [p |-> addError(q, "\"" \o idents(ident) \o "\" expected"),
              ok |-> FALSE]
        ELSE [p |-> nextWord(q).p, ok |-> TRUE])

parseFloat64(q0) ==
    With(q0, LAMBDA q :
        IF q.eof THEN [p |-> q, ok |-> FALSE, f |-> 0]
        ELSE With(ParseFloat(q.currentWord), LAMBDA r :
                IF r.err
                THEN [p |-> addError(q, "Unable to parse float"),
                      ok |-> FALSE, f |-> 0]
                ELSE [p |-> nextWord(q).p, ok |-> TRUE, f |-> r.f]))

PointFail(q) == [p |-> q, ok |-> FALSE, pt |-> Vec3Zero]

\* parsePoint that stores the three numbers in the reverse order
parsePointReversed(q) ==
    With(parseFloat64(q), LAMBDA a :
    IF ~a.ok THEN PointFail(a.p) ELSE
    With(parseFloat64(a.p), LAMBDA b :
    IF ~b.ok THEN PointFail(b.p) ELSE
    With(parseFloat64(b.p), LAMBDA c :
    IF ~c.ok THEN PointFail(c.p) ELSE
    [p |-> c.p, ok |-> TRUE, pt |-> <<c.f, b.f, a.f>>])))

parsePoint(q) ==
    With(parseFloat64(q), LAMBDA a :
    IF ~a.ok THEN PointFail(a.p) ELSE
    With(parseFloat64(a.p), LAMBDA b :
    IF ~b.ok THEN PointFail(b.p) ELSE
    With(parseFloat64(b.p), LAMBDA c :
    IF ~c.ok THEN PointFail(c.p) ELSE
    [p |-> c.p, ok |-> TRUE, pt |-> <<a.f, b.f, c.f>>])))

FacetFail(q) == [p |-> q, ok |-> FALSE, t |-> ZeroTriangle]

parseFacet(q) ==
    With(consumeToken(q, idFacet), LAMBDA r1 :
    IF ~r1.ok THEN FacetFail(r1.p) ELSE
    With(consumeToken(r1.p, idNormal), LAMBDA r2 :
    IF ~r2.ok THEN FacetFail(r2.p) ELSE
    With(parsePoint(r2.p), LAMBDA n :
    IF ~n.ok THEN FacetFail(n.p) ELSE
    With(consumeToken(n.p, idOuter), LAMBDA r3 :
    IF ~r3.ok THEN FacetFail(r3.p) ELSE
    With(consumeToken(r3.p, idLoop), LAMBDA r4 :
    IF ~r4.ok THEN FacetFail(r4.p) ELSE
    With(consumeToken(r4.p, idVertex), LAMBDA r5 :
    IF ~r5.ok THEN FacetFail(r5.p) ELSE
    With(parsePoint(r5.p), LAMBDA v0 :
    IF ~v0.ok THEN FacetFail(v0.p) ELSE
    With(consumeToken(v0.p, idVertex), LAMBDA r6 :
    IF ~r6.ok THEN FacetFail(r6.p) ELSE
    With(parsePoint(r6.p), LAMBDA v1 :
    IF ~v1.ok THEN FacetFail(v1.p) ELSE
    With(consumeToken(v1.p, idVertex), LAMBDA r7 :
    IF ~r7.ok THEN FacetFail(r7.p) ELSE
    With(parsePoint(r7.p), LAMBDA v2 :
    IF ~v2.ok THEN FacetFail(v2.p) ELSE
    With(consumeToken(v2.p, idEndloop), LAMBDA r8 :
    IF ~r8.ok THEN FacetFail(r8.p) ELSE
    With(consumeToken(r8.p, idEndfacet), LAMBDA r9 :
    IF ~r9.ok THEN FacetFail(r9.p) ELSE
    [p |-> r9.p, ok |-> TRUE,
     t |-> [Normal |-> n.pt, Vertices |-> <<v0.pt, v1.pt, v2.pt>>]])))))))))))))

\* a prefix test that looks at the first word only
HasSolidPrefixWord(ln) ==
    /\ Len(ln.words) >= 1
    /\ ln.words[1] = "solid"

\* bytes.HasPrefix(p.currentLine, []byte("solid ")): the line's first bytes are
\* the word solid followed by one space
HasSolidPrefix(ln) ==
    /\ ln.indent = ""
    /\ Len(ln.words) >= 1
    /\ ln.words[1] = "solid"
    /\ ln.sep = " "

\* the bytes after the prefix, kept as the words of the rest of the line
HeaderName(ln) == Tail(ln.words)

\* Solid.SetName
SetName(w, name) == [w EXCEPT !.Name = name, !.calls = Append(@, "SetName")]

\* the parser and the Writer after parseASCIIHeaderLine, and its result
parseASCIIHeaderLine(q0, w) ==
    With(q0, LAMBDA q :
        IF q.eof
        THEN [p |-> nextLine(addError(q, "unexpected end of file")).p,
              sw |-> w, ok |-> FALSE]
        ELSE IF ~HasSolidPrefix(q.currentLine)
        THEN [p |-> nextLine(addError(q, "ASCII header must start with \"solid \"")).p,
              sw |-> w, ok |-> FALSE]
        ELSE [p |-> nextLine(q).p,
              sw |-> SetName(w, HeaderName(q.currentLine)),
              ok |-> TRUE])

\* Solid.AppendTriangle
AppendTriangle(w, t) ==
    [w EXCEPT !.Triangles = Append(@, t), !.calls = Append(@, "AppendTriangle")]

RECURSIVE JoinLines(_)
JoinLines(s) == IF s = <<>> THEN "" ELSE Head(s) \o "\n" \o JoinLines(Tail(s))

Banner == "Triangles had to be skipped.\n"

\* generateErrorText that writes the banner after the diagnostics
generateErrorTextBannerLast(q) ==
    [q EXCEPT !.ErrorText =
        JoinLines(q.errors) \o (IF q.TrianglesSkipped THEN Banner ELSE "")]

\* parser.generateErrorText
generateErrorText(q) ==
    [q EXCEPT !.ErrorText =
        (IF q.TrianglesSkipped THEN Banner ELSE "") \o JoinLines(q.errors)]

----------------------------------------------------------------------------
(* The inputs.  An input is a header line, facets and a tail, one facet on *)
(* seven lines as STL writers lay it out; a facet may carry one defect.    *)

\* the 21 words of the i-th facet of a file
FacetWords(i) ==
    <<"facet", "normal", "0", "0", "1",
      "outer", "loop",
      "vertex", ToString(i), "0", "0",
      "vertex", "1", "0", "0.1",
      "vertex", "0", "1", "-1",
      "endloop",
      "endfacet">>

\* the triangle these words describe
FacetTriangle(i) ==
    [Normal |-> <<0, 0, Unit>>,
     Vertices |-> <<<<i * Unit, 0, 0>>, <<Unit, 0, 13421773>>, <<0, Unit, -Unit>>>>]

FacetLen == Len(FacetWords(1))

\* where the 12 float literals are
FloatPos == {3, 4, 5, 9, 10, 11, 13, 14, 15, 17, 18, 19}

\* first and last word of each of the seven lines
LineSpans == <<<<1, 5>>, <<6, 7>>, <<8, 11>>, <<12, 15>>, <<16, 19>>, <<20, 20>>, <<21, 21>>>>

NoDefect == [kind |-> "none", pos |-> 0, word |-> ""]

\* a word replaced by another, a word left out, the file ending before a word
Replaced ==
    {[kind |-> "repl", pos |-> k, word |-> w] :
        k \in 1..FacetLen, w \in {"bad", "facet", "endsolid"}} \
    {[kind |-> "repl", pos |-> 1, word |-> "facet"]}
OutOfRange == {[kind |-> "repl", pos |-> k, word |-> "1e39"] : k \in FloatPos}
LeftOut == {[kind |-> "del", pos |-> k, word |-> ""] : k \in 1..FacetLen}
CutOff == {[kind |-> "eof", pos |-> k, word |-> ""] : k \in 1..FacetLen}

AllDefects == Replaced \cup OutOfRange \cup LeftOut \cup CutOff

SmallDefects ==
    {NoDefect,
     [kind |-> "repl", pos |-> 4, word |-> "bad"],
     [kind |-> "repl", pos |-> 7, word |-> "bad"]}

\* the words at place k of facet i under defect d: one word or none
WordsAt(i, d, k) ==
    IF d.kind = "repl" /\ d.pos = k THEN <<d.word>>
    ELSE IF d.kind = "del" /\ d.pos = k THEN <<>>
    ELSE IF d.kind = "eof" /\ k >= d.pos THEN <<>>
    ELSE <<FacetWords(i)[k]>>

RECURSIVE WordsFromTo(_, _, _, _)
WordsFromTo(i, d, a, b) ==
    IF a > b THEN <<>> ELSE WordsAt(i, d, a) \o WordsFromTo(i, d, a + 1, b)

MkLine(indent, words, sep) == [indent |-> indent, words |-> words, sep |-> sep]

Line(ws) == MkLine(" ", ws, " ")

BlankLine == MkLine("", <<>>, "")

RECURSIVE FacetLinesFrom(_, _, _)
FacetLinesFrom(i, d, g) ==
    IF g > Len(LineSpans) THEN <<>>
    ELSE IF d.kind = "eof" /\ LineSpans[g][1] >= d.pos THEN <<>>
    ELSE <<Line(WordsFromTo(i, d, LineSpans[g][1], LineSpans[g][2]))>>
         \o FacetLinesFrom(i, d, g + 1)

FacetLines(i, d) == FacetLinesFrom(i, d, 1)

RECURSIVE AllFacetLines(_, _)
AllFacetLines(fs, i) ==
    IF i > Len(fs) THEN <<>> ELSE FacetLines(i, fs[i]) \o AllFacetLines(fs, i + 1)

ValidHeaders == {"named", "unnamed"}
Headers == ValidHeaders \cup {"nospace", "indented", "tab", "upper", "missing"}

HeaderLines(h) ==
    CASE h = "named" -> <<MkLine("", <<"solid", "name">>, " ")>>
      [] h = "unnamed" -> <<MkLine("", <<"solid">>, " ")>>
      [] h = "nospace" -> <<MkLine("", <<"solid">>, "")>>
      [] h = "indented" -> <<MkLine(" ", <<"solid", "name">>, " ")>>
      [] h = "tab" -> <<MkLine("", <<"solid", "name">>, "\t")>>
      [] h = "upper" -> <<MkLine("", <<"Solid", "name">>, " ")>>
      [] h = "missing" -> <<>>

GoodTails == {"endsolid", "endsolid name"}
Tails == GoodTails \cup {"none", "junk endsolid", "blank endsolid"}

TailLines(t) ==
    CASE t = "endsolid" -> <<MkLine("", <<"endsolid">>, "")>>
      [] t = "endsolid name" ->
            <<MkLine("", <<"endsolid", "name">>, " ")>>
      [] t = "none" -> <<>>
      [] t = "junk endsolid" ->
            <<MkLine("", <<"junk", "endsolid">>, " ")>>
      [] t = "blank endsolid" ->
            <<BlankLine, MkLine("", <<"endsolid">>, "")>>

IsCut(fs) == \E i \in 1..Len(fs) : fs[i].kind = "eof"

InputLines(g) ==
    [i \in 1..g.blanks |-> BlankLine]
    \o (IF g.empty THEN <<>>
        ELSE HeaderLines(g.hdr) \o AllFacetLines(g.facets, 1)
             \o (IF IsCut(g.facets) THEN <<>> ELSE TailLines(g.tail)))

\* facet lists of length n: one facet with any defect, the others with a small one
FacetLists(n) ==
    {[i \in 1..n |-> IF i = j THEN d ELSE s[i]] :
        j \in 1..n, d \in AllDefects \cup {NoDefect}, s \in [1..n -> SmallDefects]}

\* a file cut off ends with the facet that is cut
CutLast(fs) == \A i \in 1..Len(fs) : fs[i].kind = "eof" => i = Len(fs)

\* a list with at most one defect
SingleDefect(fs) == Cardinality({i \in 1..Len(fs) : fs[i] # NoDefect}) <= 1

SmallLists == UNION {[1..n -> SmallDefects] : n \in 0..MaxFacets}

Inputs ==
    \* no word at all
    {[empty |-> TRUE, blanks |-> b, hdr |-> "missing", facets |-> <<>>,
      tail |-> "none", err |-> e] : b \in 0..MaxBlank, e \in BOOLEAN}
    \cup
    \* any facets under a valid header, with and without the final endsolid
    {[empty |-> FALSE, blanks |-> 0, hdr |-> "named", facets |-> fs, tail |-> t,
      err |-> FALSE] :
        t \in {"endsolid", "none"},
        fs \in {f \in UNION {FacetLists(n) : n \in 0..MaxFacets} : CutLast(f)}}
    \cup
    \* one facet with any defect under an invalid header
    {[empty |-> FALSE, blanks |-> 0, hdr |-> "nospace", facets |-> fs,
      tail |-> "endsolid", err |-> FALSE] :
        fs \in {f \in UNION {FacetLists(n) : n \in 0..MaxFacets} :
                    CutLast(f) /\ SingleDefect(f)}}
    \cup
    \* any header and tail around facets with small defects
    {[empty |-> FALSE, blanks |-> 0, hdr |-> h, facets |-> fs, tail |-> t,
      err |-> FALSE] : h \in Headers, t \in Tails, fs \in SmallLists}
    \cup
    \* blank lines before the header
    {[empty |-> FALSE, blanks |-> b, hdr |-> h, facets |-> fs, tail |-> t,
      err |-> e] :
        b \in 1..MaxBlank, h \in {"named", "upper"},
        t \in {"endsolid", "none", "blank endsolid"}, e \in BOOLEAN,
        fs \in SmallLists}
    \cup
    \* a stream whose read fails in the end
    {[empty |-> FALSE, blanks |-> 0, hdr |-> h, facets |-> fs, tail |-> t,
      err |-> TRUE] : h \in {"named", "nospace"}, t \in Tails, fs \in SmallLists}
    \cup
    \* a stream whose read fails in the middle of a facet
    {[empty |-> FALSE, blanks |-> 0, hdr |-> "named", facets |-> <<d>>,
      tail |-> "none", err |-> TRUE] : d \in CutOff}

ParseInit ==
    /\ gen \in Inputs
    /\ stream = [lines |-> InputLines(gen), err |-> gen.err]
    /\ p = ZeroParser
    /\ sw = [Name |-> <<>>, Triangles |-> <<>>, calls |-> <<>>]
    /\ pc = "new"
    /\ success = FALSE
    /\ hist = [entered |-> FALSE, iters |-> 0, skipped |-> 0,
               exitWord |-> "", exitEof |-> FALSE]

----------------------------------------------------------------------------
(* Parse, one step at a time *)

\* the condition of the TriangleLoop, readascii.go:95
LoopCond(q) == ~q.eof /\ ~isCurrentTokenIdent(q, idEndsolid)

\* lines 104-108 without p.TrianglesSkipped = true
facetOrSkipUnmarked(q, w) ==
    With(parseFacet(q), LAMBDA f :
        IF f.ok
        THEN [p |-> f.p, sw |-> AppendTriangle(w, f.t), ok |-> TRUE]
        ELSE [p |-> f.p, sw |-> w, ok |-> FALSE])

\* readascii.go:104-108: a facet is parsed and appended, or marked as skipped
facetOrSkip(q, w) ==
    With(parseFacet(q), LAMBDA f :
        IF f.ok
        THEN [p |-> f.p, sw |-> AppendTriangle(w, f.t), ok |-> TRUE]
        ELSE [p |-> [f.p EXCEPT !.TrianglesSkipped = TRUE], sw |-> w, ok |-> FALSE])

\* success without !p.TrianglesSkipped
ParseSuccessIgnoringSkipped(q) ==
    IF ~q.HeaderError
    THEN consumeToken(q, idEndsolid)
    ELSE [p |-> q, ok |-> FALSE]

\* success with consumeToken called first, whatever the two flags are
ParseSuccessEager(q) ==
    With(consumeToken(q, idEndsolid), LAMBDA r :
        [p |-> r.p, ok |-> ~q.HeaderError /\ ~q.TrianglesSkipped /\ r.ok])

\* success that tests the token without recording anything
ParseSuccessQuiet(q) ==
    IF ~q.HeaderError /\ ~q.TrianglesSkipped /\ MatchString(idEndsolid, q.currentWord)
    THEN consumeToken(q, idEndsolid)
    ELSE [p |-> q, ok |-> FALSE]

\* success := !p.HeaderError && !p.TrianglesSkipped && p.consumeToken(idEndsolid)
\* (&& does not evaluate its right operand when the left one is false)
ParseSuccess(q) ==
    IF ~q.HeaderError /\ ~q.TrianglesSkipped
    THEN consumeToken(q, idEndsolid)
    ELSE [p |-> q, ok |-> FALSE]

NewParser ==
    /\ pc = "new"
    /\ p' = nextLine(ZeroParser).p
    /\ pc' = "parse"
    /\ UNCHANGED <<gen, stream, sw, success, hist>>
    /\ UNCHANGED <<vvars, svars, rvars>>

ParseEmpty ==
    /\ pc = "parse"
    /\ p.eof
    /\ p' = addError([p EXCEPT !.HeaderError = TRUE], "File is empty")
    /\ pc' = "final"
    /\ UNCHANGED <<gen, stream, sw, success, hist>>
    /\ UNCHANGED <<vvars, svars, rvars>>

ParseHeader ==
    /\ pc = "parse"
    /\ ~p.eof
    /\ \E r \in {parseASCIIHeaderLine(p, sw)} :
           /\ p' = [r.p EXCEPT !.HeaderError = ~r.ok]
           /\ sw' = r.sw
    /\ pc' = "loop"
    /\ hist' = [hist EXCEPT !.entered = TRUE]
    /\ UNCHANGED <<gen, stream, success>>
    /\ UNCHANGED <<vvars, svars, rvars>>

\* the loop is left: what the current token is then
Exit(q) == [hist EXCEPT !.exitWord = q.currentWord, !.exitEof = q.eof]

\* readascii.go:96-97: the body starts on a token that is not facet
ExpectFacet ==
    /\ pc = "loop"
    /\ LoopCond(p)
    /\ ~isCurrentTokenIdent(p, idFacet)
    /\ p' = addError(p, "\"facet\" or \"endsolid\" expected")
    /\ pc' = "sync"
    /\ hist' = [hist EXCEPT !.iters = @ + 1]
    /\ UNCHANGED <<gen, stream, sw, success>>
    /\ UNCHANGED <<vvars, svars, rvars>>

\* readascii.go:98-101: one turn of skipToToken's loop; on endsolid or at the
\* end of the stream the TriangleLoop is left
Synchronize ==
    /\ pc = "sync"
    /\ \E r \in {skipToToken(p, idFacetOrEndsolid)} :
           /\ p' = r.p
           /\ pc' = IF ~r.ret THEN "sync"
                    ELSE IF r.id \in {idEndsolid, idNone} THEN "final"
                    ELSE "facet"
           /\ hist' = IF r.ret /\ r.id \in {idEndsolid, idNone} THEN Exit(r.p) ELSE hist
    /\ UNCHANGED <<gen, stream, sw, success>>
    /\ UNCHANGED <<vvars, svars, rvars>>

\* the body is at line 104: it started on facet, or was synchronized to it
AtFacet == IF pc = "facet" THEN TRUE ELSE pc = "loop" /\ LoopCond(p) /\ isCurrentTokenIdent(p, idFacet)

\* readascii.go:104-108
ParseFacet ==
    /\ AtFacet
    /\ \E r \in {facetOrSkip(p, sw)} :
           /\ p' = r.p
           /\ sw' = r.sw
           /\ pc' = IF r.ok THEN "loop" ELSE "resync"
           /\ hist' = [hist EXCEPT
                         !.iters = IF pc = "loop" THEN @ + 1 ELSE @,
                         !.skipped = IF r.ok THEN @ ELSE @ + 1]
    /\ UNCHANGED <<gen, stream, success>>
    /\ UNCHANGED <<vvars, svars, rvars>>

\* readascii.go:109: one turn of skipToToken's loop after a skipped triangle
Resynchronize ==
    /\ pc = "resync"
    /\ \E r \in {skipToToken(p, idFacetOrEndsolid)} :
           /\ p' = r.p
           /\ pc' = IF r.ret THEN "loop" ELSE "resync"
    /\ UNCHANGED <<gen, stream, sw, success, hist>>
    /\ UNCHANGED <<vvars, svars, rvars>>

TriangleLoopExit ==
    /\ pc = "loop"
    /\ ~LoopCond(p)
    /\ pc' = "final"
    /\ hist' = Exit(p)
    /\ UNCHANGED <<gen, stream, p, sw, success>>
    /\ UNCHANGED <<vvars, svars, rvars>>

ParseReturn ==
    /\ pc = "final"
    /\ \E r \in {ParseSuccess(p)} :
           /\ success' = r.ok
           /\ p' = generateErrorText(r.p)
    /\ pc' = "done"
    /\ UNCHANGED <<gen, stream, sw, hist>>
    /\ UNCHANGED <<vvars, svars, rvars>>

ParseNext ==
    \/ NewParser
    \/ ParseEmpty
    \/ ParseHeader
    \/ ExpectFacet
    \/ Synchronize
    \/ ParseFacet
    \/ Resynchronize
    \/ TriangleLoopExit
    \/ ParseReturn

----------------------------------------------------------------------------
(* Solid.Validate, solid.go:241-411.  Triangle and edge indices are Go's,   *)
(* from 0: triangle i is solid.Triangles[i + 1], its vertex k is            *)
(* Vertices[k + 1].  Coordinates are small integers, on which float64       *)
(* arithmetic is exact.                                                     *)

Diff(v, w) == <<v[1] - w[1], v[2] - w[2], v[3] - w[3]>>

Cross(v, w) ==
    <<v[2] * w[3] - v[3] * w[2], v[3] * w[1] - v[1] * w[3], v[1] * w[2] - v[2] * w[1]>>

Dot(v, w) == v[1] * w[1] + v[2] * w[2] + v[3] * w[3]

\* Triangle.hasEqualVertices: some two vertices are exactly equal
hasEqualVertices(t) ==
    \/ t.Vertices[1] = t.Vertices[2]
    \/ t.Vertices[1] = t.Vertices[3]
    \/ t.Vertices[2] = t.Vertices[3]

\* the right-hand-rule normal of the vertices (its direction; not normalized)
calculateNormal(t) ==
    Cross(Diff(t.Vertices[2], t.Vertices[1]), Diff(t.Vertices[3], t.Vertices[1]))

\* Triangle.checkNormal(HalfPi): the angle between the stored normal and the
\* calculated one does not exceed 90 degrees, that is, their dot product is
\* not negative
checkNormal(t) == Dot(t.Normal, calculateNormal(t)) >= 0

\* new(EdgeError), and the nil pointer of TriangleErrors.EdgeErrors
ZeroEdgeError == [nil |-> FALSE, SameEdgeTriangles |-> <<>>, CounterEdgeTriangles |-> <<>>]
NilEdgeError == [nil |-> TRUE, SameEdgeTriangles |-> <<>>, CounterEdgeTriangles |-> <<>>]

\* new(TriangleErrors)
ZeroTriangleErrors ==
    [HasEqualVertices |-> FALSE, NormalDoesNotMatch |-> FALSE,
     EdgeErrors |-> [e \in 0..2 |-> NilEdgeError]]

\* newEdgeLookup: the empty map
newEdgeLookup == [key \in {} |-> {}]

\* InsertEdge that makes a new set for the key on every call
InsertEdgeFresh(l, triangleIndex, v, w) ==
    [key \in DOMAIN l \cup {<<v, w>>} |->
        IF key = <<v, w>> THEN {triangleIndex} ELSE l[key]]

\* edgeLookup.InsertEdge
InsertEdge(l, triangleIndex, v, w) ==
    IF <<v, w>> \in DOMAIN l
    THEN [l EXCEPT ![<<v, w>>] = @ \cup {triangleIndex}]
    ELSE [key \in DOMAIN l \cup {<<v, w>>} |->
            IF key = <<v, w>> THEN {triangleIndex} ELSE l[key]]

\* the elements of set in the order in which order holds them
InOrder(set, order) == SelectSeq(order, LAMBDA t : t \in set)

\* OtherTrianglesWithEdge without the test t != i
OtherTrianglesWithEdgeAll(l, v, w, i, order) ==
    IF <<v, w>> \notin DOMAIN l THEN <<>>
    ELSE InOrder(l[<<v, w>>], order)

\* OtherTrianglesWithEdge that leaves the loop at i instead of passing over it
OtherTrianglesWithEdgeBreak(l, v, w, i, order) ==
    IF <<v, w>> \notin DOMAIN l THEN <<>>
    ELSE With(InOrder(l[<<v, w>>], order), LAMBDA r :
            IF i \in {r[k] : k \in 1..Len(r)}
            THEN SubSeq(r, 1, (CHOOSE k \in 1..Len(r) : r[k] = i) - 1)
            ELSE r)

\* edgeLookup.OtherTrianglesWithEdge; order is the order in which this call's
\* range over the set of indices delivers them
OtherTrianglesWithEdge(l, v, w, i, order) ==
    IF <<v, w>> \notin DOMAIN l THEN <<>>
    ELSE InOrder(l[<<v, w>>] \ {i}, order)

\* triangleErrorsMap.item: the entry is created on first use
item(m, triangleIdx) ==
    IF triangleIdx \in DOMAIN m THEN m
    ELSE [k \in DOMAIN m \cup {triangleIdx} |->
            IF k = triangleIdx THEN ZeroTriangleErrors ELSE m[k]]

\* edge that allocates the EdgeErrors of all three edges
edgeAll(te, e) ==
    [te EXCEPT !.EdgeErrors =
        [k \in 0..2 |-> IF te.EdgeErrors[k].nil THEN ZeroEdgeError ELSE te.EdgeErrors[k]]]

\* TriangleErrors.edge: the EdgeError is allocated if not already present
edge(te, e) ==
    IF te.EdgeErrors[e].nil THEN [te EXCEPT !.EdgeErrors[e] = ZeroEdgeError] ELSE te

\* EdgeError.IsUsedInOtherTriangles
IsUsedInOtherTriangles(eer) == Len(eer.SameEdgeTriangles) # 0

\* EdgeError.HasMultipleCounterEdges
HasMultipleCounterEdges(eer) == Len(eer.CounterEdgeTriangles) > 1

\* EdgeError.HasNoCounterEdge
HasNoCounterEdge(eer) == Len(eer.CounterEdgeTriangles) = 0

\* solid.go:360-366, from triangle i and its vertex1 on
RECURSIVE BuildLookup(_, _, _, _)
BuildLookup(l0, ts, i, vertex1) ==
    With(l0, LAMBDA l :
        IF i >= Len(ts) THEN l
        ELSE IF vertex1 >= 3 THEN BuildLookup(l, ts, i + 1, 0)
        ELSE BuildLookup(
                InsertEdge(l, i, ts[i + 1].Vertices[vertex1 + 1],
                           ts[i + 1].Vertices[((vertex1 + 1) % 3) + 1]),
                ts, i, vertex1 + 1))

\* solid.go:376-378
CheckEqualVertices(m, t, i) ==
    IF hasEqualVertices(t)
    THEN [item(m, i) EXCEPT ![i].HasEqualVertices = TRUE]
    ELSE m

\* solid.go:381-383
CheckNormal(m0, t, i) ==
    With(m0, LAMBDA m :
        IF ~checkNormal(t)
        THEN [item(m, i) EXCEPT ![i].NormalDoesNotMatch = TRUE]
        ELSE m)

\* lines 390-395 with the test len(sameEdgeTriangles) > 1
CheckSameEdgeMultiple(m0, l, t, i, vertex1, order) ==
    With(m0, LAMBDA m :
    With(OtherTrianglesWithEdge(l, t.Vertices[vertex1 + 1],
                                t.Vertices[((vertex1 + 1) % 3) + 1], i, order),
         LAMBDA sameEdgeTriangles :
        IF Len(sameEdgeTriangles) > 1
        THEN With(item(m, i), LAMBDA m1 :
                [m1 EXCEPT ![i] = [edge(m1[i], vertex1) EXCEPT
                    !.EdgeErrors[vertex1].SameEdgeTriangles = sameEdgeTriangles]])
        ELSE m))

\* solid.go:390-395
CheckSameEdge(m0, l, t, i, vertex1, order) ==
    With(m0, LAMBDA m :
    With(OtherTrianglesWithEdge(l, t.Vertices[vertex1 + 1],
                                t.Vertices[((vertex1 + 1) % 3) + 1], i, order),
         LAMBDA sameEdgeTriangles :
        IF Len(sameEdgeTriangles) > 0
        THEN With(item(m, i), LAMBDA m1 :
                [m1 EXCEPT ![i] = [edge(m1[i], vertex1) EXCEPT
                    !.EdgeErrors[vertex1].SameEdgeTriangles = sameEdgeTriangles]])
        ELSE m))

\* lines 401-406 with the test len(counterEdgeTriangles) > 1
CheckCounterEdgeMultiple(m0, l, t, i, vertex1, order) ==
    With(m0, LAMBDA m :
    With(OtherTrianglesWithEdge(l, t.Vertices[((vertex1 + 1) % 3) + 1],
                                t.Vertices[vertex1 + 1], i, order),
         LAMBDA counterEdgeTriangles :
        IF Len(counterEdgeTriangles) > 1
        THEN With(item(m, i), LAMBDA m1 :
                [m1 EXCEPT ![i] = [edge(m1[i], vertex1) EXCEPT
                    !.EdgeErrors[vertex1].CounterEdgeTriangles = counterEdgeTriangles]])
        ELSE m))

\* solid.go:401-406
CheckCounterEdge(m0, l, t, i, vertex1, order) ==
    With(m0, LAMBDA m :
    With(OtherTrianglesWithEdge(l, t.Vertices[((vertex1 + 1) % 3) + 1],
                                t.Vertices[vertex1 + 1], i, order),
         LAMBDA counterEdgeTriangles :
        IF Len(counterEdgeTriangles) # 1
        THEN With(item(m, i), LAMBDA m1 :
                [m1 EXCEPT ![i] = [edge(m1[i], vertex1) EXCEPT
                    !.EdgeErrors[vertex1].CounterEdgeTriangles = counterEdgeTriangles]])
        ELSE m))

\* solid.go:386-407, from edge vertex1 on
RECURSIVE CheckEdges(_, _, _, _, _, _)
CheckEdges(m0, l, t, i, vertex1, order) ==
    With(m0, LAMBDA m :
        IF vertex1 >= 3 THEN m
        ELSE CheckEdges(
                CheckCounterEdge(CheckSameEdge(m, l, t, i, vertex1, order),
                                 l, t, i, vertex1, order),
                l, t, i, vertex1 + 1, order))

\* solid.go:373-408, from triangle i on
RECURSIVE CheckTriangles(_, _, _, _, _)
CheckTriangles(m0, l, ts, i, order) ==
    With(m0, LAMBDA m :
        IF i >= Len(ts) THEN m
        ELSE CheckTriangles(
                CheckEdges(CheckNormal(CheckEqualVertices(m, ts[i + 1], i), ts[i + 1], i),
                           l, ts[i + 1], i, 0, order),
                l, ts, i + 1, order))

\* make(triangleErrorsMap)
NoFindings == [k \in {} |-> ZeroTriangleErrors]

\* Solid.Validate: the Solid after the call, and the map returned
Validate(s, order) ==
    With(BuildLookup(newEdgeLookup, s.Triangles, 0, 0), LAMBDA e :
        [solid |-> s,
         findings |-> CheckTriangles(NoFindings, e, s.Triangles, 0, order)])

\* The orders in which a range over a map may deliver the indices 0..n-1.  Go
\* leaves the order unspecified and starts at a random place: the rotations of
\* the ascending order are among the orders a call may see.
MapOrders(n) == {[k \in 1..n |-> (k - 1 + r) % n] : r \in 0..(n - 1)}

(* The meshes: triangles on the corners of a tetrahedron *)

A == <<0, 0, 0>>
B == <<1, 0, 0>>
C == <<0, 1, 0>>
D == <<0, 0, 1>>

Tri(u, v, w, n) == [Normal |-> n, Vertices |-> <<u, v, w>>]

\* a triangle with the normal its vertices give
Face(u, v, w) == Tri(u, v, w, Cross(Diff(v, u), Diff(w, u)))

\* the four faces seen from outside and from inside, a face with its normal
\* inverted, a face that starts at another vertex (both have the edges of the
\* first face), and triangles with two and with three equal vertices
MeshSeq ==
    <<Face(A, C, B), Face(A, B, D), Face(A, D, C), Face(B, C, D),
      Face(A, B, C), Face(A, D, B), Face(A, C, D), Face(B, D, C),
      Tri(A, C, B, <<0, 0, 1>>),
      Face(C, B, A),
      Tri(A, A, B, <<0, 0, 1>>),
      Tri(A, A, A, <<0, 0, 1>>)>>

Mesh == {MeshSeq[k] : k \in 1..Len(MeshSeq)}

Rank(t) == CHOOSE k \in 1..Len(MeshSeq) : MeshSeq[k] = t

\* Validate treats all triangle indices alike, so of the meshes that differ
\* only in the order of their triangles one is looked at: the one in the
\* order of MeshSeq
InMeshOrder(ts, t) == IF ts = <<>> THEN TRUE ELSE Rank(ts[Len(ts)]) < Rank(t)

\* the Writer fills the Solid, one triangle at a time, before it is validated
Populate ==
    /\ calls = 0
    /\ Len(solid.Triangles) < MaxTriangles
    /\ \E t \in Mesh :
          /\ InMeshOrder(solid.Triangles, t)
          /\ solid' = AppendTriangle(solid, t)
    /\ UNCHANGED <<findings, previous, calls>>
    /\ UNCHANGED <<pvars, svars, rvars>>

\* Validate is called, any number of times; calls counts to "two or more"
CallValidate ==
    /\ \E order \in MapOrders(Len(solid.Triangles)) :
        \E r \in {Validate(solid, order)} :
           /\ solid' = r.solid
           /\ findings' = r.findings
    /\ previous' = [solid |-> solid, findings |-> findings]
    /\ calls' = IF calls < 2 THEN calls + 1 ELSE calls
    /\ UNCHANGED <<pvars, svars, rvars>>

ValidateInit ==
    /\ solid = [Name |-> <<>>, Triangles |-> <<>>, calls |-> <<>>]
    /\ findings = NoFindings
    /\ previous = [solid |-> [Name |-> <<>>, Triangles |-> <<>>, calls |-> <<>>],
                   findings |-> NoFindings]
    /\ calls = 0

\* the parser's variables while the validator is looked at
ParseIdle ==
    /\ gen = [empty |-> TRUE, blanks |-> 0, hdr |-> "missing", facets |-> <<>>,
              tail |-> "none", err |-> FALSE]
    /\ stream = [lines |-> <<>>, err |-> FALSE]
    /\ p = ZeroParser
    /\ sw = [Name |-> <<>>, Triangles |-> <<>>, calls |-> <<>>]
    /\ pc = "idle"
    /\ success = FALSE
    /\ hist = [entered |-> FALSE, iters |-> 0, skipped |-> 0,
               exitWord |-> "", exitEof |-> FALSE]

ValidateNext ==
    \/ Populate
    \/ CallValidate

----------------------------------------------------------------------------
(* Solid.SetTriangleCount and Solid.AppendTriangle on the slice s.Triangles, *)
(* solid.go:39-60.  A slice is its backing array and its length; its         *)
(* capacity is the length of the array.                                      *)

\* the nil slice of a new Solid
NilSlice == [array |-> <<>>, len |-> 0]

\* s.Triangles as the rest of the program sees it
Triangles(sl) == SubSeq(sl.array, 1, sl.len)

\* make([]Triangle, l, n) followed by copy(s.Triangles[:l], oldTriangles)
MakeCopy(sl, l, n) ==
    [array |-> [k \in 1..n |-> IF k <= l THEN sl.array[k] ELSE ZeroTriangle],
     len |-> l]

\* SetTriangleCount without the copy of the old triangles
SetTriangleCountNoCopy(sl, n) ==
    IF n < sl.len THEN [sl EXCEPT !.len = n]
    ELSE IF n <= Len(sl.array) THEN sl
    ELSE [array |-> [k \in 1..n |-> ZeroTriangle], len |-> sl.len]

\* Solid.SetTriangleCount
SetTriangleCount(sl, n) ==
    IF n < sl.len THEN [sl EXCEPT !.len = n]
    ELSE IF n <= Len(sl.array) THEN sl
    ELSE MakeCopy(sl, sl.len, n)

\* the capacities append may give the new array of a full slice of capacity c
GrowCaps(c) == IF c = 0 THEN {1} ELSE {c + 1, 2 * c}

\* append(s.Triangles, t); newcap is the capacity of the array it allocates
\* when the slice is full
append(sl, t, newcap) ==
    IF sl.len < Len(sl.array)
    THEN [array |-> [sl.array EXCEPT ![sl.len + 1] = t], len |-> sl.len + 1]
    ELSE [array |-> [k \in 1..newcap |->
                        IF k <= sl.len THEN sl.array[k]
                        ELSE IF k = sl.len + 1 THEN t ELSE ZeroTriangle],
          len |-> sl.len + 1]

\* the triangles appended in this part of the model
SliceElements == {MeshSeq[1], MeshSeq[2]}

NoCall == [set |-> FALSE, before |-> <<>>, n |-> 0, appended |-> <<>>]

CallSetTriangleCount ==
    /\ \E n \in 0..MaxCap :
          /\ slice' = SetTriangleCount(slice, n)
          /\ last' = [set |-> TRUE, before |-> Triangles(slice), n |-> n,
                      appended |-> <<>>]
    /\ UNCHANGED <<pvars, vvars, rvars>>

CallAppendTriangle ==
    /\ \E t \in SliceElements : \E newcap \in GrowCaps(Len(slice.array)) :
          /\ slice.len < Len(slice.array) \/ newcap <= MaxCap
          /\ slice' = append(slice, t, newcap)
          /\ last' = IF last.set THEN [last EXCEPT !.appended = Append(@, t)] ELSE last
    /\ UNCHANGED <<pvars, vvars, rvars>>

SliceInit ==
    /\ slice = NilSlice
    /\ last = NoCall

SliceNext ==
    \/ CallSetTriangleCount
    \/ CallAppendTriangle

----------------------------------------------------------------------------
(* Ray.IntersectsTriangle, ray.go:55-107.  A float64 is modelled as a binary *)
(* floating-point number of Precision significant bits (float64 has 53)      *)
(* whose smallest step is 2^-FracBits (float64: 2^-1074), kept as the        *)
(* integer number of such steps.  Every operation rounds its exact result to *)
(* the nearest number of the format, ties to the even one, as IEEE 754 does. *)

\* 1.0
One == 2^FracBits

Abs(a) == IF a < 0 THEN -a ELSE a

\* a / d rounded to the nearest integer, ties to the even one (a >= 0, d > 0)
RoundHalfEven(a, d) ==
    IF 2 * (a % d) < d THEN a \div d
    ELSE IF 2 * (a % d) > d THEN (a \div d) + 1
    ELSE IF (a \div d) % 2 = 0 THEN a \div d
    ELSE (a \div d) + 1

\* the step of the format at a / d: the least power of two g with
\* a / d < 2^Precision * g
RECURSIVE Step(_, _, _)
Step(a, d, g) == IF a < 2^Precision * d * g THEN g ELSE Step(a, d, 2 * g)

\* the number of the format nearest to num / den steps (den > 0)
Round(num, den) ==
    With(Step(Abs(num), den, 1), LAMBDA g :
        (IF num < 0 THEN -1 ELSE 1) * g * RoundHalfEven(Abs(num), den * g))

\* float64 +, -, *, /
FAdd(a, b) == Round(a + b, 1)
FSub(a, b) == Round(a - b, 1)
FMul(a, b) == Round(a * b, One)
FDiv(a, b) == IF b < 0 THEN Round(-(a * One), -b) ELSE Round(a * One, b)

\* the float64 nearest to the decimal literal num / den
Literal(num, den) == Round(num * One, den)

\* var epsilon = math.Nextafter(1, 2) - 1
epsilon == FSub(One + Step(One, 1, 1), One)

\* Vec3.Diff, Vec3.Add, Vec3.MultScalar, Vec3.Cross, Vec3.Dot
Vec3Diff(v, w) == <<FSub(v[1], w[1]), FSub(v[2], w[2]), FSub(v[3], w[3])>>

Vec3Add(v, w) == <<FAdd(v[1], w[1]), FAdd(v[2], w[2]), FAdd(v[3], w[3])>>

Vec3MultScalar(v, f) == <<FMul(v[1], f), FMul(v[2], f), FMul(v[3], f)>>

Vec3Cross(v, w) ==
    <<FSub(FMul(v[2], w[3]), FMul(v[3], w[2])),
      FSub(FMul(v[3], w[1]), FMul(v[1], w[3])),
      FSub(FMul(v[1], w[2]), FMul(v[2], w[1]))>>

Vec3Dot(v, w) == FAdd(FAdd(FMul(v[1], w[1]), FMul(v[2], w[2])), FMul(v[3], w[3]))

\* a return of IntersectsTriangle at the place ret (1: parallel, 2: u, 3: v,
\* 4: hit, 5: t), with the det and the t it had computed
Miss(ret, det, t) == [point |-> Vec3Zero, ok |-> FALSE, ret |-> ret, det |-> det, t |-> t]

\* IntersectsTriangle that rejects u + v = 1
IntersectsTriangleOpen(r, tr) ==
    With(Vec3Diff(tr.Vertices[2], tr.Vertices[1]), LAMBDA edge1 :
    With(Vec3Diff(tr.Vertices[3], tr.Vertices[1]), LAMBDA edge2 :
    With(Vec3Cross(r.Direction, edge2), LAMBDA rayCrossE2 :
    With(Vec3Dot(edge1, rayCrossE2), LAMBDA det :
    IF det > -epsilon /\ det < epsilon THEN Miss(1, det, 0) ELSE
    With(FDiv(One, det), LAMBDA invDet :
    With(Vec3Diff(r.Origin, tr.Vertices[1]), LAMBDA s :
    With(FMul(invDet, Vec3Dot(s, rayCrossE2)), LAMBDA u :
    IF u < 0 \/ u > One THEN Miss(2, det, 0) ELSE
    With(Vec3Cross(s, edge1), LAMBDA sCrossE1 :
    With(FMul(invDet, Vec3Dot(r.Direction, sCrossE1)), LAMBDA v :
    IF v < 0 \/ FAdd(u, v) >= One THEN Miss(3, det, 0) ELSE
    With(FMul(invDet, Vec3Dot(edge2, sCrossE1)), LAMBDA t :
    IF t > epsilon
    THEN [point |-> Vec3Add(r.Origin, Vec3MultScalar(r.Direction, t)),
          ok |-> TRUE, ret |-> 4, det |-> det, t |-> t]
    ELSE Miss(5, det, t)))))))))))

\* IntersectsTriangle that also accepts an intersection behind the origin
IntersectsTriangleBothWays(r, tr) ==
    With(Vec3Diff(tr.Vertices[2], tr.Vertices[1]), LAMBDA edge1 :
    With(Vec3Diff(tr.Vertices[3], tr.Vertices[1]), LAMBDA edge2 :
    With(Vec3Cross(r.Direction, edge2), LAMBDA rayCrossE2 :
    With(Vec3Dot(edge1, rayCrossE2), LAMBDA det :
    IF det > -epsilon /\ det < epsilon THEN Miss(1, det, 0) ELSE
    With(FDiv(One, det), LAMBDA invDet :
    With(Vec3Diff(r.Origin, tr.Vertices[1]), LAMBDA s :
    With(FMul(invDet, Vec3Dot(s, rayCrossE2)), LAMBDA u :
    IF u < 0 \/ u > One THEN Miss(2, det, 0) ELSE
    With(Vec3Cross(s, edge1), LAMBDA sCrossE1 :
    With(FMul(invDet, Vec3Dot(r.Direction, sCrossE1)), LAMBDA v :
    IF v < 0 \/ FAdd(u, v) > One THEN Miss(3, det, 0) ELSE
    With(FMul(invDet, Vec3Dot(edge2, sCrossE1)), LAMBDA t :
    IF t > epsilon \/ t < -epsilon
    THEN [point |-> Vec3Add(r.Origin, Vec3MultScalar(r.Direction, t)),
          ok |-> TRUE, ret |-> 4, det |-> det, t |-> t]
    ELSE Miss(5, det, t)))))))))))

\* Ray.IntersectsTriangle
IntersectsTriangle(r, tr) ==
    With(Vec3Diff(tr.Vertices[2], tr.Vertices[1]), LAMBDA edge1 :
    With(Vec3Diff(tr.Vertices[3], tr.Vertices[1]), LAMBDA edge2 :
    With(Vec3Cross(r.Direction, edge2), LAMBDA rayCrossE2 :
    With(Vec3Dot(edge1, rayCrossE2), LAMBDA det :
    IF det > -epsilon /\ det < epsilon THEN Miss(1, det, 0) ELSE
    With(FDiv(One, det), LAMBDA invDet :
    With(Vec3Diff(r.Origin, tr.Vertices[1]), LAMBDA s :
    With(FMul(invDet, Vec3Dot(s, rayCrossE2)), LAMBDA u :
    IF u < 0 \/ u > One THEN Miss(2, det, 0) ELSE
    With(Vec3Cross(s, edge1), LAMBDA sCrossE1 :
    With(FMul(invDet, Vec3Dot(r.Direction, sCrossE1)), LAMBDA v :
    IF v < 0 \/ FAdd(u, v) > One THEN Miss(3, det, 0) ELSE
    With(FMul(invDet, Vec3Dot(edge2, sCrossE1)), LAMBDA t :
    IF t > epsilon
    THEN [point |-> Vec3Add(r.Origin, Vec3MultScalar(r.Direction, t)),
          ok |-> TRUE, ret |-> 4, det |-> det, t |-> t]
    ELSE Miss(5, det, t)))))))))))

\* a vector of whole numbers
Whole(x, y, z) == <<x * One, y * One, z * One>>

\* the triangle of the tests, and one in the plane x + y + z = 1
Flat == [Normal |-> Vec3Zero, Vertices |-> <<Whole(0, 0, 0), Whole(1, 0, 0), Whole(0, 1, 0)>>]

Tilted == [Normal |-> Vec3Zero, Vertices |-> <<Whole(1, 0, 0), Whole(0, 1, 0), Whole(0, 0, 1)>>]

\* the step of the format just below 1.0
Ulp == Step(One, 1, 1) \div 2

\* the coordinates of the tests, and numbers next to 0, 0.5 and 1
Coordinates ==
    {Literal(1, 10), Literal(-1, 10), Literal(1, 2), Literal(51, 100), 0, One,
     1, -1, Literal(1, 2) + Ulp, Literal(1, 2) - Ulp, Literal(1, 4), Literal(3, 4),
     One - Ulp, One + 2 * Ulp}

Down == Whole(0, 0, -1)

\* rays above the triangle of the tests, heading down
RaysDown == {[Origin |-> <<x, y, One>>, Direction |-> Down] : x, y \in Coordinates}

\* rays of whole-number origin and direction
WholeNumbers == {-1, 0, 1}

RaysWhole ==
    {[Origin |-> Whole(o[1], o[2], o[3]), Direction |-> Whole(d[1], d[2], d[3])] :
        o \in {<<0, 0, 1>>, <<0, 0, 0>>, <<0, 0, -1>>, <<1, 1, 1>>},
        d \in (WholeNumbers \X WholeNumbers \X WholeNumbers) \ {<<0, 0, 0>>}}

NoResult == [done |-> FALSE, point |-> Vec3Zero, ok |-> FALSE, ret |-> 0, det |-> 0, t |-> 0]

RayIdle ==
    /\ ray = [Origin |-> Vec3Zero, Direction |-> Vec3Zero]
    /\ triangle = ZeroTriangle
    /\ hit = NoResult

RayInit ==
    /\ \/ ray \in RaysDown /\ triangle = Flat
       \/ ray \in RaysWhole /\ triangle \in {Flat, Tilted}
    /\ hit = NoResult

CallIntersectsTriangle ==
    /\ ~hit.done
    /\ \E r \in {IntersectsTriangle(ray, triangle)} :
          hit' = [done |-> TRUE, point |-> r.point, ok |-> r.ok, ret |-> r.ret,
                  det |-> r.det, t |-> r.t]
    /\ UNCHANGED <<ray, triangle>>
    /\ UNCHANGED <<pvars, vvars, svars>>

RayNext == CallIntersectsTriangle

----------------------------------------------------------------------------
(* The specifications: of Parse, and of Validate *)

Init == ParseInit /\ ValidateInit /\ SliceInit /\ RayIdle

Spec == Init /\ [][ParseNext]_vars

\* Parse runs on one goroutine and nothing it does blocks once the stream is
\* in memory: a step that can be taken is taken
SpecTerminates == Init /\ [][ParseNext]_vars /\ WF_vars(ParseNext)

InitValidate == ParseIdle /\ ValidateInit /\ SliceInit /\ RayIdle

SpecValidate == InitValidate /\ [][ValidateNext]_vars

InitSlice == ParseIdle /\ ValidateInit /\ SliceInit /\ RayIdle

SpecSlice == InitSlice /\ [][SliceNext]_vars

InitRay == ParseIdle /\ ValidateInit /\ SliceInit /\ RayInit

SpecRay == InitRay /\ [][RayNext]_vars


----------------------------------------------------------------------------
(* Properties of Parse *)

Done == pc = "done"

NoWord == \A i \in 1..Len(stream.lines) : stream.lines[i].words = <<>>

Sound(fs) == \A i \in 1..Len(fs) : fs[i] = NoDefect

TailOk(g) == g.tail \in GoodTails \cup {"blank endsolid"}

\* the grammar-conforming inputs, read from a stream that does not fail
WellFormed(g) ==
    ~g.empty /\ g.hdr \in ValidHeaders /\ Sound(g.facets) /\ TailOk(g) /\ ~g.err

\* the triangles of the facets of fs whose defect is in the set keep, in file order
RECURSIVE TrianglesOf(_, _, _)
TrianglesOf(fs, i, keep) ==
    IF i > Len(fs) THEN <<>>
    ELSE (IF fs[i] \in keep THEN <<FacetTriangle(i)>> ELSE <<>>)
         \o TrianglesOf(fs, i + 1, keep)

IsPrefix(s, t) == Len(s) <= Len(t) /\ \A i \in 1..Len(s) : s[i] = t[i]

AppendCalls(n) == [i \in 1..n |-> "AppendTriangle"]

\* C1: a grammar-conforming input is parsed with success, an empty diagnostic
\* text, and exactly one AppendTriangle per facet, in file order; no other
\* triangle is appended at any time of the parse.
C1_ValidInput ==
    WellFormed(gen) =>
        /\ IsPrefix(sw.Triangles, TrianglesOf(gen.facets, 1, {NoDefect}))
        /\ Done =>
            /\ success
            /\ p.ErrorText = ""
            /\ sw.Triangles = TrianglesOf(gen.facets, 1, {NoDefect})
            /\ sw.calls = <<"SetName">> \o AppendCalls(Len(gen.facets))

C1_Witness ==
    Done /\ WellFormed(gen) /\ Len(gen.facets) = MaxFacets /\ gen.blanks = MaxBlank

\* the facets of fs that carry a defect
Defective(fs) == {i \in 1..Len(fs) : fs[i] # NoDefect}

\* exactly one facet of g has exactly one float literal replaced by a word
\* that is no float, and everything else is well-formed
OneBadFloat(g) ==
    /\ ~g.empty /\ g.hdr \in ValidHeaders /\ TailOk(g) /\ ~g.err
    /\ Cardinality(Defective(g.facets)) = 1
    /\ \A i \in Defective(g.facets) :
          /\ g.facets[i].kind = "repl"
          /\ g.facets[i].pos \in FloatPos
          /\ ParseFloat(g.facets[i].word).err

BadWord(g) == g.facets[CHOOSE i \in Defective(g.facets) : TRUE].word

SkippedOnly(g) ==
    /\ \A k \in Defective(g.facets) :
          \A j \in 1..Len(sw.Triangles) : sw.Triangles[j] # FacetTriangle(k)
    /\ IsPrefix(sw.Triangles, TrianglesOf(g.facets, 1, {NoDefect}))
    /\ Done => /\ ~success
               /\ sw.Triangles = TrianglesOf(g.facets, 1, {NoDefect})

\* C2 as stated: whatever the unparsable literal is, the facet is skipped, Parse
\* returns false and every other facet is appended, in file order.
C2_Original == OneBadFloat(gen) => SkippedOnly(gen)

\* C2, amended: the same, for an unparsable literal that is not the word
\* endsolid (on which the synchronization stops, ending the triangle loop).
C2_OneBadFloat ==
    (OneBadFloat(gen) /\ BadWord(gen) # "endsolid") => SkippedOnly(gen)

C2_Witness ==
    /\ Done /\ OneBadFloat(gen) /\ BadWord(gen) = "1e39"
    /\ Len(gen.facets) = MaxFacets /\ Defective(gen.facets) = {1}
    /\ Len(sw.Triangles) = MaxFacets - 1

HeaderMsg == "ASCII header must start with \"solid \""

\* a header line is there and does not start with "solid "
BadHeaderLine(g) == ~g.empty /\ g.hdr \in Headers \ (ValidHeaders \cup {"missing"})

\* the diagnostic a facet with a small defect is skipped with
SmallDefectMsg(d) == IF d.pos \in FloatPos THEN "Unable to parse float" ELSE "\"loop\" expected"

RECURSIVE FacetMsgs(_, _)
FacetMsgs(fs, i) ==
    IF i > Len(fs) THEN <<>>
    ELSE (IF fs[i] = NoDefect THEN <<>> ELSE <<SmallDefectMsg(fs[i])>>)
         \o FacetMsgs(fs, i + 1)

Msgs(log) == [i \in 1..Len(log) |-> log[i].msg]

\* C3: with a header line that does not start with "solid " Parse returns
\* false, SetName is not called, and the triangle loop is entered all the same:
\* with the rest well-formed the header diagnostic is the only one and every
\* facet is appended; with facets that carry a defect, every one of their
\* diagnostics is recorded after the header's and the other facets are appended.
C3_BadHeader ==
    (Done /\ BadHeaderLine(gen) /\ TailOk(gen) /\ ~gen.err
          /\ \A i \in 1..Len(gen.facets) : gen.facets[i] \in SmallDefects) =>
        /\ ~success
        /\ hist.entered
        /\ \A i \in 1..Len(sw.calls) : sw.calls[i] # "SetName"
        /\ sw.Triangles = TrianglesOf(gen.facets, 1, {NoDefect})
        /\ Msgs(p.log) = <<HeaderMsg>> \o FacetMsgs(gen.facets, 1)
        /\ Sound(gen.facets) => Len(p.errors) = 1

C3_Witness ==
    /\ Done /\ BadHeaderLine(gen) /\ TailOk(gen) /\ ~gen.err
    /\ Len(gen.facets) = MaxFacets /\ Sound(gen.facets)
    /\ Len(sw.Triangles) = MaxFacets

\* the first line that holds a word starts with "solid "
HeaderValid ==
    \E i \in 1..Len(stream.lines) :
        /\ HasSolidPrefix(stream.lines[i])
        /\ \A j \in 1..(i - 1) : stream.lines[j].words = <<>>

\* C4: Parse returns true if and only if the header was valid, parseFacet never
\* failed, and the current token when the triangle loop was left is endsolid.
C4_SuccessIff ==
    Done => (success <=> (HeaderValid /\ hist.skipped = 0 /\ hist.exitWord = "endsolid"))

C4_Witness ==
    Done /\ ~success /\ HeaderValid /\ hist.skipped = 0 /\ hist.iters = MaxFacets

\* C5: on a stream without any word (and without a read failure) Parse returns
\* false with the header error set, never enters the triangle loop, calls the
\* Writer not at all, and reports the one diagnostic "File is empty".
C5_EmptyInput ==
    (NoWord /\ ~stream.err /\ pc \in {"final", "done"}) =>
        /\ p.HeaderError
        /\ ~hist.entered /\ hist.iters = 0
        /\ sw.calls = <<>> /\ sw.Triangles = <<>>
        /\ Done =>
            /\ ~success
            /\ Msgs(p.log) = <<"File is empty">>
            /\ p.errors = <<ToString(Len(stream.lines)) \o ": File is empty">>
            /\ p.ErrorText = ToString(Len(stream.lines)) \o ": File is empty\n"

C5_Witness == Done /\ NoWord /\ ~stream.err /\ stream.lines = <<>>

RECURSIVE ReportLines(_)
ReportLines(log) ==
    IF log = <<>> THEN ""
    ELSE ToString(Head(log).line) \o ": " \o Head(log).msg \o "\n"
         \o ReportLines(Tail(log))

\* C6: after a parse the diagnostic text is the banner line if and only if a
\* triangle was skipped, followed by one line "<lineNumber>: <message>" per
\* diagnostic recorded, in the order of recording.
C6_ErrorText ==
    Done => p.ErrorText =
              (IF hist.skipped > 0 THEN "Triangles had to be skipped.\n" ELSE "")
              \o ReportLines(p.log)

C6_Witness == Done /\ hist.skipped = 2 /\ Len(p.log) >= 3

----------------------------------------------------------------------------
(* Properties of Validate *)

Validated == calls >= 1

Indices == 0..(Len(solid.Triangles) - 1)

\* the directed edge e of a triangle: from vertex e to the next one
EdgeOf(t, e) == <<t.Vertices[e + 1], t.Vertices[((e + 1) % 3) + 1]>>

Reverse(ed) == <<ed[2], ed[1]>>

\* the triangles of ts that contain the directed edge ed
TrianglesWith(ts, ed) ==
    {i \in 0..(Len(ts) - 1) : \E e \in 0..2 : EdgeOf(ts[i + 1], e) = ed}

Elements(list) == {list[k] : k \in 1..Len(list)}

DistinctVertices(t) == Cardinality(Elements(t.Vertices)) = 3

NormalWithin90(t) ==
    Dot(t.Normal, Cross(Diff(t.Vertices[2], t.Vertices[1]),
                        Diff(t.Vertices[3], t.Vertices[1]))) >= 0

ClosedManifold(ts) ==
    \A i \in 0..(Len(ts) - 1) :
        /\ DistinctVertices(ts[i + 1])
        /\ NormalWithin90(ts[i + 1])
        /\ \A e \in 0..2 :
              /\ TrianglesWith(ts, EdgeOf(ts[i + 1], e)) = {i}
              /\ Cardinality(TrianglesWith(ts, Reverse(EdgeOf(ts[i + 1], e))) \ {i}) = 1

\* C7: for a mesh in which no triangle has two equal vertices, every stored
\* normal is within 90 degrees of the one the vertices give, and every
\* directed edge is in exactly one triangle and its reverse in exactly one
\* other triangle, Validate returns an empty map of findings.
C7_ClosedManifold ==
    (Validated /\ ClosedManifold(solid.Triangles)) => DOMAIN findings = {}

C7_Witness ==
    /\ Validated
    /\ Len(solid.Triangles) = 4
    /\ ClosedManifold(solid.Triangles)
    /\ DOMAIN findings = {}

\* C8: whenever two distinct triangles i and j contain the same directed
\* edge, the findings have an entry for i whose EdgeError for that edge
\* lists j in SameEdgeTriangles, and an entry for j whose EdgeError for that
\* edge lists i.
C8_SameEdge ==
    Validated =>
        \A i, j \in Indices : \A e, f \in 0..2 :
            (i # j /\ EdgeOf(solid.Triangles[i + 1], e) = EdgeOf(solid.Triangles[j + 1], f))
            => /\ i \in DOMAIN findings
               /\ ~findings[i].EdgeErrors[e].nil
               /\ j \in Elements(findings[i].EdgeErrors[e].SameEdgeTriangles)
               /\ j \in DOMAIN findings
               /\ ~findings[j].EdgeErrors[f].nil
               /\ i \in Elements(findings[j].EdgeErrors[f].SameEdgeTriangles)

C8_Witness ==
    /\ Validated
    /\ \E i, j \in Indices : \E e, f \in 0..2 :
          /\ i # j
          /\ EdgeOf(solid.Triangles[i + 1], e) = EdgeOf(solid.Triangles[j + 1], f)
          /\ i \in DOMAIN findings
          /\ findings[i].EdgeErrors[e].SameEdgeTriangles = <<j>>

\* C9: for a Solid of a single triangle with three distinct vertices,
\* Validate returns an entry for index 0 in which all three EdgeErrors are
\* present, each with an empty CounterEdgeTriangles list and an empty
\* SameEdgeTriangles list.
C9_SingleTriangle ==
    (Validated /\ Len(solid.Triangles) = 1 /\ DistinctVertices(solid.Triangles[1]))
    => /\ 0 \in DOMAIN findings
       /\ \A e \in 0..2 :
             /\ ~findings[0].EdgeErrors[e].nil
             /\ findings[0].EdgeErrors[e].CounterEdgeTriangles = <<>>
             /\ findings[0].EdgeErrors[e].SameEdgeTriangles = <<>>

C9_Witness ==
    /\ Validated
    /\ Len(solid.Triangles) = 1
    /\ DistinctVertices(solid.Triangles[1])
    /\ DOMAIN findings = {0}
    /\ ~findings[0].EdgeErrors[2].nil

\* the Solid is the one the last call was made on
Unmodified == Validated => solid = previous.solid

\* C10 as stated: Validate never modifies the Solid, and two calls on the
\* same Solid return identical findings, the index lists included.
C10_Original ==
    /\ Unmodified
    /\ calls >= 2 => findings = previous.findings

\* two index lists with the same indices, each once, in any order
SameIndices(l1, l2) == Len(l1) = Len(l2) /\ Elements(l1) = Elements(l2)

SameEdgeError(e1, e2) ==
    /\ e1.nil = e2.nil
    /\ SameIndices(e1.SameEdgeTriangles, e2.SameEdgeTriangles)
    /\ SameIndices(e1.CounterEdgeTriangles, e2.CounterEdgeTriangles)

SameFindings(m1, m2) ==
    /\ DOMAIN m1 = DOMAIN m2
    /\ \A i \in DOMAIN m1 :
          /\ m1[i].HasEqualVertices = m2[i].HasEqualVertices
          /\ m1[i].NormalDoesNotMatch = m2[i].NormalDoesNotMatch
          /\ \A e \in 0..2 : SameEdgeError(m1[i].EdgeErrors[e], m2[i].EdgeErrors[e])

\* C10, amended: Validate never modifies the Solid, and two calls on the same
\* Solid return the same triangle indices, the same flags, the same EdgeErrors
\* present, and same-edge and counter-edge lists of the same indices, whose
\* order within a list may differ from call to call.
C10_Idempotent ==
    /\ Unmodified
    /\ calls >= 2 => SameFindings(findings, previous.findings)

C10_Witness ==
    /\ calls >= 2
    /\ solid = previous.solid
    /\ findings # previous.findings
    /\ SameFindings(findings, previous.findings)

\* the other triangles that contain edge e of triangle i, and its reverse
SameEdgeOthers(ts, i, e) == TrianglesWith(ts, EdgeOf(ts[i + 1], e)) \ {i}

CounterEdgeOthers(ts, i, e) == TrianglesWith(ts, Reverse(EdgeOf(ts[i + 1], e))) \ {i}

EdgeFinding(ts, i, e) ==
    \/ SameEdgeOthers(ts, i, e) # {}
    \/ Cardinality(CounterEdgeOthers(ts, i, e)) # 1

HasFinding(ts, i) ==
    \/ ~DistinctVertices(ts[i + 1])
    \/ ~NormalWithin90(ts[i + 1])
    \/ \E e \in 0..2 : EdgeFinding(ts, i, e)

\* C11: the map returned by Validate has the key i if and only if triangle i
\* has a finding (equal vertices, normal mismatch, an edge that another
\* triangle has in the same direction, an edge whose reverse is not in
\* exactly one other triangle); and in every record EdgeErrors[e] is nil if
\* and only if edge e has no such edge finding.
C11_KeysAndNil ==
    Validated =>
        \A i \in Indices :
            /\ i \in DOMAIN findings <=> HasFinding(solid.Triangles, i)
            /\ i \in DOMAIN findings =>
                  \A e \in 0..2 :
                      findings[i].EdgeErrors[e].nil <=> ~EdgeFinding(solid.Triangles, i, e)

C11_Witness ==
    /\ Validated
    /\ \E i \in DOMAIN findings : \E e, f \in 0..2 :
          /\ ~findings[i].HasEqualVertices
          /\ ~findings[i].NormalDoesNotMatch
          /\ findings[i].EdgeErrors[e].nil
          /\ ~findings[i].EdgeErrors[f].nil

\* C12: for every EdgeError Validate records for edge e of triangle i,
\* CounterEdgeTriangles holds exactly the other triangles that contain edge e
\* in the opposite direction; HasNoCounterEdge is true exactly when there is
\* none, HasMultipleCounterEdges exactly when there is more than one.
C12_CounterEdges ==
    Validated =>
        \A i \in DOMAIN findings : \A e \in 0..2 :
            ~findings[i].EdgeErrors[e].nil =>
                /\ Elements(findings[i].EdgeErrors[e].CounterEdgeTriangles)
                       = CounterEdgeOthers(solid.Triangles, i, e)
                /\ HasNoCounterEdge(findings[i].EdgeErrors[e])
                       <=> CounterEdgeOthers(solid.Triangles, i, e) = {}
                /\ HasMultipleCounterEdges(findings[i].EdgeErrors[e])
                       <=> Cardinality(CounterEdgeOthers(solid.Triangles, i, e)) > 1

----------------------------------------------------------------------------
(* Properties of SetTriangleCount *)

Min(a, b) == IF a < b THEN a ELSE b

\* C15: after SetTriangleCount(n) on a Solid of l triangles the Solid holds
\* the first min(l, n) of them in the same order and its capacity is at
\* least n; the AppendTriangle calls that follow append their triangles after
\* them, in call order, and change none of the earlier ones.
C15_SetTriangleCount ==
    last.set =>
        /\ Triangles(slice)
              = SubSeq(last.before, 1, Min(Len(last.before), last.n)) \o last.appended
        /\ Len(slice.array) >= last.n

C15_Witness ==
    /\ last.set
    /\ last.n >= 1
    /\ last.n < Len(last.before)
    /\ Len(last.appended) >= 2
    /\ Len(slice.array) > last.n

----------------------------------------------------------------------------
(* Properties of IntersectsTriangle *)

\* the ray is one of those above the triangle of the tests, heading down
TestRay == ray \in RaysDown /\ triangle = Flat

X == ray.Origin[1]

Y == ray.Origin[2]

\* origins of ray_test.go: on the diagonal, inside, beyond the diagonal, left
\* of the triangle, below it
TestCases ==
    /\ (X = Literal(1, 2) /\ Y = Literal(1, 2)) => hit.ok
    /\ (X = Literal(1, 10) /\ Y = Literal(1, 10)) => hit.ok
    /\ (X = Literal(51, 100) /\ Y = Literal(51, 100)) => ~hit.ok
    /\ (X = Literal(-1, 10) /\ Y = Literal(1, 10)) => ~hit.ok
    /\ (X = Literal(1, 10) /\ Y = Literal(-1, 10)) => ~hit.ok

\* C13 as stated: for the triangle (0,0,0),(1,0,0),(0,1,0) and a ray of
\* direction (0,0,-1) from (x,y,1), IntersectsTriangle reports a hit exactly
\* when x >= 0, y >= 0 and x + y <= 1, and the point of a hit is (x,y,0).
C13_Original ==
    (hit.done /\ TestRay) =>
        /\ hit.ok <=> (X >= 0 /\ Y >= 0 /\ X + Y <= One)
        /\ hit.ok => hit.point = <<X, Y, 0>>
        /\ TestCases

\* C13, amended: for that triangle and such a ray IntersectsTriangle reports
\* a hit exactly when x >= 0, y >= 0 and the float64 sum x + y, rounded as
\* the addition rounds it, is <= 1 (the origins of the tests hit and miss as
\* stated), and the point of a hit is (x,y,0).
C13_TestRays ==
    (hit.done /\ TestRay) =>
        /\ hit.ok <=> (X >= 0 /\ Y >= 0 /\ FAdd(X, Y) <= One)
        /\ hit.ok => hit.point = <<X, Y, 0>>
        /\ TestCases

C13_Witness ==
    /\ hit.done
    /\ TestRay
    /\ X = Literal(1, 2)
    /\ Y > X
    /\ hit.ok
    /\ hit.point = <<X, Y, 0>>

\* a vector of whole numbers, in whole numbers
InWhole(v) == <<v[1] \div One, v[2] \div One, v[3] \div One>>

WholeEdge1 == InWhole(Diff(triangle.Vertices[2], triangle.Vertices[1]))

WholeEdge2 == InWhole(Diff(triangle.Vertices[3], triangle.Vertices[1]))

\* edge1 . (direction x edge2), exactly
ExactDet == Dot(WholeEdge1, Cross(InWhole(ray.Direction), WholeEdge2))

\* the direction of the ray lies in the plane of the triangle
InPlane == ExactDet = 0

\* the ray is one of whole-number origin and direction
WholeRay == ray \in RaysWhole

\* the sign of the place t of the plane on the ray's line: that of
\* (edge2 . (s x edge1)) / det
ExactT ==
    ExactDet * Dot(WholeEdge2, Cross(InWhole(Diff(ray.Origin, triangle.Vertices[1])),
                                     WholeEdge1))

\* the ray's line meets the plane of the triangle at or behind the origin
AtOrBehind == WholeRay /\ ~InPlane /\ ExactT <= 0

\* C14: a ray whose direction lies in the plane of the triangle (det is 0)
\* is a miss with the zero vector, whatever its origin; and an intersection
\* of the ray's line at or behind the origin (t <= epsilon) is a miss too.
C14_ParallelOrBehind ==
    hit.done =>
        /\ (InPlane \/ hit.det = 0) => (~hit.ok /\ hit.point = Vec3Zero /\ hit.ret = 1)
        /\ (AtOrBehind \/ (hit.ret \in {4, 5} /\ hit.t <= epsilon))
              => (~hit.ok /\ hit.point = Vec3Zero)

C14_Witness ==
    /\ hit.done
    /\ triangle = Tilted
    /\ InPlane
    /\ ray.Origin = Whole(1, 1, 1)
    /\ hit.ret = 1

----------------------------------------------------------------------------
(* Properties of Parse: recovery, the stream, the line counter *)

\* this step is a call of parseFacet that returns false
FacetAborted == pc \in {"loop", "facet"} /\ pc' = "resync"

\* this step ends the synchronization that follows an aborted triangle
Resynchronized == pc = "resync" /\ pc' = "loop"

\* C16: every triangle whose parsing is aborted (by any failing step of the
\* facet grammar, the input ending in the middle of the facet included)
\* records exactly one diagnostic, sets the triangles-skipped mark, appends
\* nothing to the Writer, and leaves the cursor on the next facet or endsolid
\* token or at the end of the stream.
C16_AbortedTriangle ==
    [][/\ FacetAborted =>
            /\ Len(p'.log) = Len(p.log) + 1
            /\ p'.log[Len(p'.log)].msg
                  \in {"Unable to parse float"} \cup
                      {"\"" \o idents(id) \o "\" expected" :
                          id \in {idFacet, idNormal, idOuter, idLoop, idVertex,
                                  idEndloop, idEndfacet}}
            /\ p'.TrianglesSkipped
            /\ sw' = sw
       /\ Resynchronized => (p'.eof \/ p'.currentWord \in {"facet", "endsolid"})
      ]_vars

EndsolidMsg == "\"endsolid\" expected"

\* the token the triangle loop ended on (or, never entered, would have
\* started on) is not endsolid
NoEndsolid == Done /\ hist.exitWord # "endsolid"

SyncMsg == "\"facet\" or \"endsolid\" expected"

\* C18: on a current token that is neither facet nor endsolid the triangle
\* loop records exactly one diagnostic and discards words up to, but not
\* including, the first word that is facet or endsolid; on facet the parse
\* goes on with that facet, on endsolid or at the end of the stream the loop
\* ends without parsing another triangle.  The synchronization reports facet
\* only on the word facet, endsolid only on endsolid, none only at the end of
\* the stream.
C18_Synchronize ==
    [][/\ (pc = "loop" /\ pc' = "sync") =>
            /\ p.currentWord \notin {"facet", "endsolid"}
            /\ p'.log = Append(p.log, [line |-> p.line, msg |-> SyncMsg])
            /\ p'.currentWord = p.currentWord
            /\ p'.scanned = p.scanned /\ p'.wpos = p.wpos
       /\ pc = "sync" =>
            /\ sw' = sw
            /\ pc' \in {"sync", "facet", "final"}
            /\ pc' = "sync" =>
                  (p.currentWord \notin {"facet", "endsolid"} /\ ~p'.eof)
            /\ pc' = "facet" =>
                  (p'.currentWord = "facet" /\ ~p'.eof)
            /\ pc' = "final" =>
                  /\ p'.currentWord = "endsolid" \/ p'.eof
                  /\ hist'.exitWord = p'.currentWord
                  /\ hist'.exitEof = p'.eof
            /\ pc' # "sync" =>
                  (p.currentWord \in {"facet", "endsolid"} => (p' = p /\ ~p.eof))
            /\ ~p'.eof => p'.log = p.log
       /\ (pc = "facet" /\ pc' = "loop") =>
            /\ Len(sw'.Triangles) = Len(sw.Triangles) + 1
            /\ p'.log = p.log
       /\ pc = "final" => sw' = sw
      ]_vars

C18_Witness ==
    /\ Done
    /\ ~p.HeaderError
    /\ SyncMsg \in Elements(Msgs(p.log))
    /\ Len(sw.Triangles) = 1
    /\ Len(gen.facets) = 2
    /\ gen.facets[1] # NoDefect
    /\ gen.facets[2] = NoDefect

\* the diagnostics that carry the read failure
ReadErrors(log) == {i \in 1..Len(log) : log[i].msg = ReadErrorText}

\* C19: after a read failure of the stream exactly one diagnostic carrying
\* it is recorded, the end-of-stream flag is true and stays true, the current
\* word is empty, and the stream is not read again: no second such diagnostic
\* is recorded.
C19_ReadFailure ==
    [][/\ p.eof => (p'.eof /\ p'.currentWord = "" /\ p'.scanned = p.scanned)
       /\ (p'.eof /\ stream.err) =>
              (Cardinality(ReadErrors(p'.log)) = 1 /\ p'.currentWord = "")
       /\ (~p'.eof \/ ~stream.err) => ReadErrors(p'.log) = {}
      ]_vars

C19_Witness ==
    /\ Done
    /\ stream.err
    /\ p.eof
    /\ hist.skipped >= 1
    /\ Cardinality(ReadErrors(p.log)) = 1
    /\ Len(p.log) >= 3

\* C20: in every parser state that is not at the end of the stream the line
\* counter is the 1-based number of the input line that holds the current
\* word, which is the first word after the last one read, however many
\* blank or used-up lines lie between; the counter never decreases, and the
\* diagnostics are recorded in non-decreasing order of line numbers.
C20_LineCounter ==
    /\ (pc # "new" /\ ~p.eof) =>
          /\ p.line \in 1..Len(stream.lines)
          /\ p.wpos \in 1..Len(stream.lines[p.line].words)
          /\ p.currentWord = stream.lines[p.line].words[p.wpos]
    /\ p.line <= Len(stream.lines)
    /\ \A i \in 1..Len(p.log) :
          /\ i > 1 => p.log[i - 1].line <= p.log[i].line
          /\ p.log[i].line <= p.line

C20_Witness ==
    /\ Done
    /\ gen.blanks >= 1
    /\ gen.tail = "blank endsolid"
    /\ success
    /\ p.line = Len(stream.lines)
    /\ p.currentWord = ""

----------------------------------------------------------------------------
(* The index of Validate, solid.go:359-366, and its query *)

\* the vertices of the meshes
Corners == {A, B, C, D}

\* the index Validate builds for the Solid it is called on
Lookup == BuildLookup(newEdgeLookup, solid.Triangles, 0, 0)

\* the set of triangle indices the index holds for the directed edge ed
LookupSet(l, ed) == IF ed \in DOMAIN l THEN l[ed] ELSE {}

\* the state after the first call of Validate; a later call builds its
\* index from the same triangles
ValidatedOnce == calls = 1

\* no element of list is in it twice
NoDuplicate(list) == Cardinality(Elements(list)) = Len(list)

\* C21: after the index build of Validate (of its first call on a Solid) the
\* index maps every directed edge (v,w) to exactly the set of the indices of the triangles that have an edge
\* from v to w, and a key is present only for such an edge;
\* OtherTrianglesWithEdge(v,w,i) returns, whatever the order of the range over
\* the set, exactly that set without i: never i, no index twice, only indices
\* of triangles of the Solid.
C21_Index ==
    ValidatedOnce =>
        With(Lookup, LAMBDA l :
            \A v \in Corners : \A w \in Corners :
                LET with == TrianglesWith(solid.Triangles, <<v, w>>) IN
                    /\ LookupSet(l, <<v, w>>) = with
                    /\ <<v, w>> \in DOMAIN l => l[<<v, w>>] # {}
                    /\ \A i \in Indices \cup {Len(solid.Triangles)} :
                          \A order \in MapOrders(Len(solid.Triangles)) :
                             LET r == OtherTrianglesWithEdge(l, v, w, i, order) IN
                                 /\ Elements(r) = with \ {i}
                                 /\ i \notin Elements(r)
                                 /\ NoDuplicate(r)
                                 /\ Elements(r) \subseteq Indices)

\* a validated Solid in which one directed edge is in three triangles and
\* another in none, and in which a triangle has two equal vertices
C21_Witness ==
    /\ ValidatedOnce
    /\ \E v \in Corners : \E w \in Corners :
          Cardinality(TrianglesWith(solid.Triangles, <<v, w>>)) >= 3
    /\ \E v \in Corners : \E w \in Corners :
          TrianglesWith(solid.Triangles, <<v, w>>) = {}
    /\ \E i \in Indices : hasEqualVertices(solid.Triangles[i + 1])

----------------------------------------------------------------------------
(* Success and the diagnostics, readascii.go:16-22 and 88-117 *)

\* C22: whenever Parse returns true, no diagnostic was recorded during that
\* parse and the diagnostic text is empty.
C22_SuccessClean ==
    (Done /\ success) => (p.log = <<>> /\ p.ErrorText = "")

----------------------------------------------------------------------------
(* Termination of Parse, readascii.go:88-117, 189-205 and 219-254 *)

\* the number of words in the first n lines
RECURSIVE WordCount(_, _)
WordCount(lines, n) ==
    IF n <= 0 THEN 0 ELSE WordCount(lines, n - 1) + Len(lines[n].words)

\* the cursor: the number of the current word among the words of the stream,
\* one more than their number at the end of the stream
Position(q) ==
    IF q.eof THEN WordCount(stream.lines, Len(stream.lines)) + 1
    ELSE WordCount(stream.lines, q.scanned - 1) + q.wpos

\* the words of the line that parseASCIIHeaderLine passes over
HeaderWords ==
    IF NoWord THEN 0
    ELSE Len(stream.lines[CHOOSE i \in 1..Len(stream.lines) :
                            /\ stream.lines[i].words # <<>>
                            /\ \A j \in 1..(i - 1) : stream.lines[j].words = <<>>].words)

\* a step that is one turn of the loop of skipToToken
Turn == pc \in {"sync", "resync"}

\* a step that is the call of parseFacet in the body of the TriangleLoop
FacetStep == pc \in {"loop", "facet"} /\ pc' \in {"loop", "resync"}

\* what each step does to the cursor
Advances ==
    /\ Position(p') >= Position(p)
    /\ (Turn /\ pc' = pc) => Position(p') > Position(p)
    /\ (Turn /\ pc' # pc) =>
          \/ p' = p /\ MatchString(idFacetOrEndsolid, p.currentWord)
          \/ p'.eof
    /\ (pc = "loop" /\ pc' = "sync") =>
          ~MatchString(idFacetOrEndsolid, p'.currentWord)
    /\ FacetStep => Position(p') > Position(p)

\* at the head of the TriangleLoop each iteration made has consumed a word
IterationsAdvance ==
    pc = "loop" => (p.eof \/ Position(p) >= HeaderWords + hist.iters + 1)

\* C23: Parse terminates on every finite input, malformed or not.  Every
\* iteration of the TriangleLoop consumes at least one word or reaches the
\* end of the stream, and so does every turn of the loop of skipToToken that
\* does not find its token (the turn that finds it ends the synchronization
\* and consumes nothing); the cursor never goes back.
C23_Terminates ==
    /\ <>Done
    /\ [][Advances]_vars
    /\ [](IterationsAdvance)

\* a finished parse of a malformed input in which the loop made two
\* iterations, skipped a triangle and synchronized over a stray word
C23_Witness ==
    /\ Done
    /\ hist.iters >= 2
    /\ hist.skipped >= 1
    /\ Len(p.log) >= 2
    /\ \E k \in 1..Len(p.log) : p.log[k].msg = "\"facet\" or \"endsolid\" expected"

============================================================================
